---- MODULE Spec2Model ----
(***************************************************************************)
(* Model of ApiJsonGenerator (api-extractor): the visitor that serializes  *)
(* an analyzed package (a tree of AstItem objects) into the *.api.json     *)
(* document, saves it and validates it against the schema.                 *)
(* A second specification, TslintSpec, models TslintCmdTask                *)
(* (rush-stack-compiler), the task that runs TSLint and reports failures.  *)
(*                                                                         *)
(* JavaScript values are modelled as tagged records [t, v] where t is the  *)
(* typeof-like tag and v the payload.  A JavaScript object is an ordered   *)
(* sequence of entries [k, v, src]: k the key, v the value, in insertion   *)
(* order (the enumeration order of string keys of a JS object).  The src   *)
(* field is a history annotation that is not part of the JSON: the path of *)
(* the AstItem whose handler stored the entry, which is the number of the  *)
(* writeJsonFile call followed by the member indices from the package.     *)
(***************************************************************************)
EXTENDS Integers, Sequences, FiniteSets, TLC

(***************************************************************************)
(* Bounds of the model.                                                    *)
(***************************************************************************)
\* longest member list of a container in the enumerated packages
MaxMembers == 2
\* number of writeJsonFile calls made on the one generator instance
MaxCalls == 2
\* number of invoke() calls made on the one task instance
MaxInvokes == 2
\* number of data chunks that TSLint writes during one invoke
MaxChunks == 2

(***************************************************************************)
(* JavaScript values.                                                      *)
(***************************************************************************)
Undefined == [t |-> "undefined", v |-> ""]
Str(s) == [t |-> "string", v |-> s]
Bool(b) == [t |-> "boolean", v |-> b]
Num(n) == [t |-> "number", v |-> n]
Arr(s) == [t |-> "array", v |-> s]
Obj(entries) == [t |-> "object", v |-> entries]
EmptyObject == Obj(<<>>)

\* ToBoolean of a JavaScript value, as used by !!x, x || y and x ? a : b
Truthy(x) ==
  CASE x.t = "undefined" -> FALSE
    [] x.t = "boolean" -> x.v
    [] x.t = "string" -> x.v # ""
    [] x.t = "number" -> x.v # 0
    [] OTHER -> TRUE

\* x || y
OrElse(x, y) == IF Truthy(x) THEN x ELSE y

\* key in obj
HasKey(obj, k) == \E i \in 1..Len(obj.v) : obj.v[i].k = k

\* the keys of obj in enumeration order
Keys(obj) == [i \in 1..Len(obj.v) |-> obj.v[i].k]

KeyIndex(obj, k) == CHOOSE i \in 1..Len(obj.v) : obj.v[i].k = k

\* obj[k]
Get(obj, k) == IF HasKey(obj, k) THEN obj.v[KeyIndex(obj, k)].v ELSE Undefined

\* obj[k] = val: an existing key keeps its position, a new key is appended
SetKey(obj, k, val, src) ==
  IF HasKey(obj, k)
    THEN Obj([obj.v EXCEPT ![KeyIndex(obj, k)] = [k |-> k, v |-> val, src |-> src]])
    ELSE Obj(Append(obj.v, [k |-> k, v |-> val, src |-> src]))

\* an object literal { k1: v1, k2: v2, ... } built by the handler of item src
Literal(pairs, src) ==
  Obj([i \in 1..Len(pairs) |-> [k |-> pairs[i][1], v |-> pairs[i][2], src |-> src]])

\* history annotation of entries that were in the input, not stored by a handler
InputSrc == <<0>>

(***************************************************************************)
(* The Kind-Name Table, ApiJsonFile.convertKindToJson.                     *)
(***************************************************************************)
convertKindToJson(kind) ==
  CASE kind = "Class" -> "class"
    [] kind = "Interface" -> "interface"
    [] kind = "Enum" -> "enum"
    [] kind = "EnumValue" -> "enum value"
    [] kind = "Function" -> "function"
    [] kind = "Method" -> "method"
    [] kind = "Property" -> "property"
    [] kind = "Namespace" -> "namespace"
    [] kind = "ModuleVariable" -> "module variable"
    [] kind = "Constructor" -> "constructor"
    [] kind = "Package" -> "package"
    [] OTHER -> ""

\* ApiAccessModifier[m]: the name of the enum member with number m
ApiAccessModifier(m) ==
  CASE m = 0 -> "Private"
    [] m = 1 -> "Protected"
    [] OTHER -> "Public"

\* String.prototype.toLowerCase on the names of the access modifiers
toLowerCase(s) ==
  CASE s = "Private" -> "private"
    [] s = "Protected" -> "protected"
    [] s = "Public" -> "public"
    [] OTHER -> s

(***************************************************************************)
(* The visitor.  Every handler takes the item, the target container        *)
(* refObject and the item's path, and returns [ref, item]: the container   *)
(* after the handler and the item after the handler (a handler writes to   *)
(* the item's documentation.parameters entries through visitApiParam).     *)
(***************************************************************************)
RECURSIVE visit(_, _, _)
RECURSIVE AstItemVisitor_visit(_, _, _)
RECURSIVE visitMembers(_, _, _, _)
RECURSIVE visitAstStructuredType(_, _, _)
RECURSIVE visitAstEnum(_, _, _)
RECURSIVE visitAstPackage(_, _, _)
RECURSIVE visitAstNamespace(_, _, _)
RECURSIVE visitParams(_, _, _, _)

isBeta(astItem) == Bool(astItem.documentation.releaseTag = "Beta")

\* visitApiParam(astParam, refObject): refObject after the call, where
\* refObject is documentation.parameters[astParam.name] (possibly undefined)
visitApiParam(astParam, refObject, path) ==
  IF ~astParam.supportedName
    THEN refObject
    ELSE IF Truthy(refObject)
      THEN SetKey(SetKey(SetKey(refObject,
             "isOptional", astParam.isOptional, path),
             "isSpread", astParam.isSpread, path),
             "type", astParam.type, path)
      ELSE refObject

\* for (const param of params) visitApiParam(param, parameters[param.name]):
\* the documentation.parameters object after the loop, from the i-th parameter
visitParams(params, i, parameters, path) ==
  IF i > Len(params)
    THEN parameters
    ELSE LET param == params[i]
             entry == Get(parameters, param.name)
             after == visitApiParam(param, entry, path)
         IN visitParams(params, i + 1,
              IF HasKey(parameters, param.name)
                THEN Obj([parameters.v EXCEPT ![KeyIndex(parameters, param.name)].v = after])
                ELSE parameters,
              path)

\* the item with its documentation.parameters object as the loop leaves it
WithParameters(astItem, parameters) ==
  [astItem EXCEPT !.documentation.parameters = parameters]

\* visitMembers going through the members from the last one to the first one
visitMembers_reversed(members, i, acc, path) ==
  IF i > Len(members)
    THEN acc
    ELSE LET n == Len(members) + 1 - i
             r == visit(members[n], acc.ref, Append(path, n))
         IN visitMembers(members, i + 1,
              [ref |-> r.ref, items |-> <<r.item>> \o acc.items], path)

\* for (const astItem of members) this.visit(astItem, container), from the
\* i-th member: acc is [ref |-> container so far, items |-> members so far]
visitMembers(members, i, acc, path) ==
  IF i > Len(members)
    THEN acc
    ELSE LET r == visit(members[i], acc.ref, Append(path, i))
         IN visitMembers(members, i + 1,
              [ref |-> r.ref, items |-> Append(acc.items, r.item)], path)

\* the three documentation fields every handler but the package's defaults to []
DocFields(astItem) ==
  <<<<"deprecatedMessage", OrElse(astItem.documentation.deprecatedMessage, Arr(<<>>))>>,
    <<"summary", OrElse(astItem.documentation.summary, Arr(<<>>))>>,
    <<"remarks", OrElse(astItem.documentation.remarks, Arr(<<>>))>>>>

Unchanged(astItem, refObject) == [ref |-> refObject, item |-> astItem]

visitAstStructuredType(astStructuredType, refObject, path) ==
  IF ~astStructuredType.supportedName
    THEN Unchanged(astStructuredType, refObject)
    ELSE
      LET kind == IF astStructuredType.kind = "Class" THEN convertKindToJson("Class")
                  ELSE IF astStructuredType.kind = "Interface"
                    THEN convertKindToJson("Interface") ELSE ""
          structureNode == Literal(
            <<<<"kind", Str(kind)>>,
              <<"extends", OrElse(astStructuredType.extends, Str(""))>>,
              <<"implements", OrElse(astStructuredType.implements, Str(""))>>,
              <<"typeParameters", OrElse(astStructuredType.typeParameters, Arr(<<>>))>>>>
            \o DocFields(astStructuredType)
            \o <<<<"isBeta", isBeta(astStructuredType)>>>>, path)
          members == astStructuredType.members
      IN IF Len(members) > 0
           THEN LET r == visitMembers(members, 1, [ref |-> EmptyObject, items |-> <<>>], path)
                IN [ref |-> SetKey(refObject, astStructuredType.name,
                                   SetKey(structureNode, "members", r.ref, path), path),
                    item |-> [astStructuredType EXCEPT !.members = r.items]]
           ELSE [ref |-> SetKey(refObject, astStructuredType.name, structureNode, path),
                 item |-> astStructuredType]

visitAstEnum(astEnum, refObject, path) ==
  IF ~astEnum.supportedName
    THEN Unchanged(astEnum, refObject)
    ELSE
      LET r == visitMembers(astEnum.members, 1, [ref |-> EmptyObject, items |-> <<>>], path)
          enumNode == Literal(
            <<<<"kind", Str(convertKindToJson(astEnum.kind))>>,
              <<"values", r.ref>>>>
            \o DocFields(astEnum)
            \o <<<<"isBeta", isBeta(astEnum)>>>>, path)
      IN [ref |-> SetKey(refObject, astEnum.name, enumNode, path),
          item |-> [astEnum EXCEPT !.members = r.items]]

\* visitAstEnumValue with the isBeta field left out of the node
visitAstEnumValue_noIsBeta(astEnumValue, refObject, path) ==
  IF ~astEnumValue.supportedName
    THEN Unchanged(astEnumValue, refObject)
    ELSE
      LET tokens == astEnumValue.declaration
          value == IF Len(tokens) > 1 THEN tokens[Len(tokens)] ELSE ""
      IN [ref |-> SetKey(refObject, astEnumValue.name, Literal(
            <<<<"kind", Str(convertKindToJson(astEnumValue.kind))>>,
              <<"value", Str(value)>>>>
            \o DocFields(astEnumValue), path), path),
          item |-> astEnumValue]

\* declaration.getFirstToken() / getLastToken(): the tokens of a declaration are
\* a sequence of texts, and the two tokens are the same node when there is one
visitAstEnumValue(astEnumValue, refObject, path) ==
  IF ~astEnumValue.supportedName
    THEN Unchanged(astEnumValue, refObject)
    ELSE
      LET tokens == astEnumValue.declaration
          value == IF Len(tokens) > 1 THEN tokens[Len(tokens)] ELSE ""
      IN [ref |-> SetKey(refObject, astEnumValue.name, Literal(
            <<<<"kind", Str(convertKindToJson(astEnumValue.kind))>>,
              <<"value", Str(value)>>>>
            \o DocFields(astEnumValue)
            \o <<<<"isBeta", isBeta(astEnumValue)>>>>, path), path),
          item |-> astEnumValue]

returnValueNode(astItem, path) ==
  Literal(<<<<"type", astItem.returnType>>,
            <<"description", astItem.documentation.returnsMessage>>>>, path)

visitAstFunction(astFunction, refObject, path) ==
  IF ~astFunction.supportedName
    THEN Unchanged(astFunction, refObject)
    ELSE
      LET parameters == visitParams(astFunction.params, 1,
                                    astFunction.documentation.parameters, path)
          newNode == Literal(
            <<<<"kind", Str(convertKindToJson(astFunction.kind))>>,
              <<"returnValue", returnValueNode(astFunction, path)>>,
              <<"parameters", parameters>>>>
            \o DocFields(astFunction)
            \o <<<<"isBeta", isBeta(astFunction)>>>>, path)
      IN [ref |-> SetKey(refObject, astFunction.name, newNode, path),
          item |-> WithParameters(astFunction, parameters)]

visitAstPackage(astPackage, refObject, path) ==
  LET head == SetKey(SetKey(SetKey(refObject,
                "kind", Str(convertKindToJson(astPackage.kind)), path),
                "summary", astPackage.documentation.summary, path),
                "remarks", astPackage.documentation.remarks, path)
      r == visitMembers(astPackage.members, 1, [ref |-> EmptyObject, items |-> <<>>], path)
  IN [ref |-> SetKey(head, "exports", r.ref, path),
      item |-> [astPackage EXCEPT !.members = r.items]]

visitAstNamespace(astNamespace, refObject, path) ==
  IF ~astNamespace.supportedName
    THEN Unchanged(astNamespace, refObject)
    ELSE
      LET r == visitMembers(astNamespace.members, 1, [ref |-> EmptyObject, items |-> <<>>], path)
          newNode == Literal(
            <<<<"kind", Str(convertKindToJson(astNamespace.kind))>>>>
            \o DocFields(astNamespace)
            \o <<<<"isBeta", isBeta(astNamespace)>>,
                 <<"exports", r.ref>>>>, path)
      IN [ref |-> SetKey(refObject, astNamespace.name, newNode, path),
          item |-> [astNamespace EXCEPT !.members = r.items]]

visitAstMember(astMember, refObject, path) ==
  IF ~astMember.supportedName
    THEN Unchanged(astMember, refObject)
    ELSE [ref |-> SetKey(refObject, astMember.name,
                         Str("astMember-" \o astMember.declarationKind), path),
          item |-> astMember]

\* visitAstProperty without the test for a set-accessor
visitAstProperty_setAccessorEmitted(astProperty, refObject, path) ==
  IF ~astProperty.supportedName
    THEN Unchanged(astProperty, refObject)
    ELSE [ref |-> SetKey(refObject, astProperty.name, Literal(
            <<<<"kind", Str(convertKindToJson(astProperty.kind))>>,
              <<"isOptional", Bool(Truthy(astProperty.isOptional))>>,
              <<"isReadOnly", Bool(Truthy(astProperty.isReadOnly))>>,
              <<"isStatic", Bool(Truthy(astProperty.isStatic))>>,
              <<"type", astProperty.type>>>>
            \o DocFields(astProperty)
            \o <<<<"isBeta", isBeta(astProperty)>>>>, path), path),
          item |-> astProperty]

visitAstProperty(astProperty, refObject, path) ==
  IF ~astProperty.supportedName
    THEN Unchanged(astProperty, refObject)
    ELSE IF astProperty.declarationKind = "SetAccessor"
      THEN Unchanged(astProperty, refObject)
      ELSE [ref |-> SetKey(refObject, astProperty.name, Literal(
              <<<<"kind", Str(convertKindToJson(astProperty.kind))>>,
                <<"isOptional", Bool(Truthy(astProperty.isOptional))>>,
                <<"isReadOnly", Bool(Truthy(astProperty.isReadOnly))>>,
                <<"isStatic", Bool(Truthy(astProperty.isStatic))>>,
                <<"type", astProperty.type>>>>
              \o DocFields(astProperty)
              \o <<<<"isBeta", isBeta(astProperty)>>>>, path), path),
            item |-> astProperty]

visitAstModuleVariable(astModuleVariable, refObject, path) ==
  [ref |-> SetKey(refObject, astModuleVariable.name, Literal(
      <<<<"kind", Str(convertKindToJson(astModuleVariable.kind))>>,
        <<"type", astModuleVariable.type>>,
        <<"value", astModuleVariable.value>>>>
      \o DocFields(astModuleVariable)
      \o <<<<"isBeta", isBeta(astModuleVariable)>>>>, path), path),
   item |-> astModuleVariable]

\* visitAstMethod taking a static method named '__constructor' for an
\* ordinary method
visitAstMethod_staticNotConstructor(astMethod, refObject, path) ==
  IF ~astMethod.supportedName
    THEN Unchanged(astMethod, refObject)
    ELSE
      LET parameters == visitParams(astMethod.params, 1,
                                    astMethod.documentation.parameters, path)
          newNode ==
            IF astMethod.name = "__constructor" /\ ~Truthy(astMethod.isStatic)
              THEN Literal(
                <<<<"kind", Str(convertKindToJson("Constructor"))>>,
                  <<"signature", Str(astMethod.declarationLine)>>,
                  <<"parameters", parameters>>>>
                \o DocFields(astMethod), path)
              ELSE Literal(
                <<<<"kind", Str(convertKindToJson(astMethod.kind))>>,
                  <<"signature", Str(astMethod.declarationLine)>>,
                  <<"accessModifier",
                    IF Truthy(astMethod.accessModifier)
                      THEN Str(toLowerCase(ApiAccessModifier(astMethod.accessModifier.v)))
                      ELSE Str("")>>,
                  <<"isOptional", Bool(Truthy(astMethod.isOptional))>>,
                  <<"isStatic", Bool(Truthy(astMethod.isStatic))>>,
                  <<"returnValue", returnValueNode(astMethod, path)>>,
                  <<"parameters", parameters>>>>
                \o DocFields(astMethod)
                \o <<<<"isBeta", isBeta(astMethod)>>>>, path)
      IN [ref |-> SetKey(refObject, astMethod.name, newNode, path),
          item |-> WithParameters(astMethod, parameters)]

visitAstMethod(astMethod, refObject, path) ==
  IF ~astMethod.supportedName
    THEN Unchanged(astMethod, refObject)
    ELSE
      LET parameters == visitParams(astMethod.params, 1,
                                    astMethod.documentation.parameters, path)
          newNode ==
            IF astMethod.name = "__constructor"
              THEN Literal(
                <<<<"kind", Str(convertKindToJson("Constructor"))>>,
                  <<"signature", Str(astMethod.declarationLine)>>,
                  <<"parameters", parameters>>>>
                \o DocFields(astMethod), path)
              ELSE Literal(
                <<<<"kind", Str(convertKindToJson(astMethod.kind))>>,
                  <<"signature", Str(astMethod.declarationLine)>>,
                  <<"accessModifier",
                    IF Truthy(astMethod.accessModifier)
                      THEN Str(toLowerCase(ApiAccessModifier(astMethod.accessModifier.v)))
                      ELSE Str("")>>,
                  <<"isOptional", Bool(Truthy(astMethod.isOptional))>>,
                  <<"isStatic", Bool(Truthy(astMethod.isStatic))>>,
                  <<"returnValue", returnValueNode(astMethod, path)>>,
                  <<"parameters", parameters>>>>
                \o DocFields(astMethod)
                \o <<<<"isBeta", isBeta(astMethod)>>>>, path)
      IN [ref |-> SetKey(refObject, astMethod.name, newNode, path),
          item |-> WithParameters(astMethod, parameters)]

\* AstItemVisitor.visit: dispatch on the kind of the item, a kind without a
\* handler of its own going to the generic member handler
AstItemVisitor_visit(astItem, refObject, path) ==
  CASE astItem.kind \in {"Class", "Interface"} -> visitAstStructuredType(astItem, refObject, path)
    [] astItem.kind = "Enum" -> visitAstEnum(astItem, refObject, path)
    [] astItem.kind = "EnumValue" -> visitAstEnumValue(astItem, refObject, path)
    [] astItem.kind = "Function" -> visitAstFunction(astItem, refObject, path)
    [] astItem.kind = "Package" -> visitAstPackage(astItem, refObject, path)
    [] astItem.kind = "Property" -> visitAstProperty(astItem, refObject, path)
    [] astItem.kind = "Method" -> visitAstMethod(astItem, refObject, path)
    [] astItem.kind = "Namespace" -> visitAstNamespace(astItem, refObject, path)
    [] astItem.kind = "ModuleVariable" -> visitAstModuleVariable(astItem, refObject, path)
    [] OTHER -> visitAstMember(astItem, refObject, path)

\* visit with @alpha definitions let through the gate
visit_alphaEmitted(astItem, refObject, path) ==
  IF astItem.documentation.releaseTag \in {"None", "Beta", "Public", "Alpha"}
    THEN AstItemVisitor_visit(astItem, refObject, path)
    ELSE Unchanged(astItem, refObject)

\* ApiJsonGenerator.visit: the release tag gate, then the dispatch
visit(astItem, refObject, path) ==
  IF astItem.documentation.releaseTag \in {"None", "Beta", "Public"}
    THEN AstItemVisitor_visit(astItem, refObject, path)
    ELSE Unchanged(astItem, refObject)

(***************************************************************************)
(* The analyzed items handed to the generator (the Extractor's package).   *)
(***************************************************************************)
Tags == {"None", "Public", "Beta", "Alpha", "Internal"}
Names == {"a", "b"}

\* [tag, sup]: the release tag and the supportedName flag of an item
Profiles == [tag : Tags, sup : BOOLEAN]
Visible == [tag |-> "Public", sup |-> TRUE]

Documentation(tag, parameters) ==
  [releaseTag |-> tag,
   summary |-> Arr(<<"summary">>),
   remarks |-> Arr(<<>>),
   deprecatedMessage |-> Undefined,
   parameters |-> parameters,
   returnsMessage |-> Arr(<<"returns">>)]

AstParameter(name, sup) ==
  [name |-> name, kind |-> "Parameter", supportedName |-> sup,
   isOptional |-> Bool(TRUE), isSpread |-> Bool(FALSE), type |-> Str("number")]

\* the documentation entry of a parameter as the doc comment parser leaves it
ParameterDoc(name) ==
  Literal(<<<<"name", Str(name)>>, <<"description", Arr(<<"text">>)>>>>, InputSrc)

NoParameters == [params |-> <<>>, docs |-> EmptyObject]
DocumentedParameter ==
  [params |-> <<AstParameter("x", TRUE)>>,
   docs |-> Obj(<<[k |-> "x", v |-> ParameterDoc("x"), src |-> InputSrc]>>)]
UndocumentedParameter ==
  [params |-> <<AstParameter("x", TRUE)>>, docs |-> EmptyObject]
UnsupportedParameter ==
  [params |-> <<AstParameter("x", FALSE)>>,
   docs |-> Obj(<<[k |-> "x", v |-> ParameterDoc("x"), src |-> InputSrc]>>)]
ParameterShapes ==
  {NoParameters, DocumentedParameter, UndocumentedParameter, UnsupportedParameter}

AstStructuredType(kind, name, p, members) ==
  [kind |-> kind, name |-> name, supportedName |-> p.sup,
   documentation |-> Documentation(p.tag, EmptyObject),
   extends |-> IF kind = "Class" THEN Str("Base") ELSE Undefined,
   implements |-> Undefined,
   typeParameters |-> Undefined,
   members |-> members]

AstEnum(name, p, members) ==
  [kind |-> "Enum", name |-> name, supportedName |-> p.sup,
   documentation |-> Documentation(p.tag, EmptyObject),
   members |-> members]

AstEnumValue(name, p, tokens) ==
  [kind |-> "EnumValue", name |-> name, supportedName |-> p.sup,
   documentation |-> Documentation(p.tag, EmptyObject),
   declaration |-> tokens]

AstFunction(name, p, shape) ==
  [kind |-> "Function", name |-> name, supportedName |-> p.sup,
   documentation |-> Documentation(p.tag, shape.docs),
   params |-> shape.params, returnType |-> Str("string")]

AstNamespace(name, p, members) ==
  [kind |-> "Namespace", name |-> name, supportedName |-> p.sup,
   documentation |-> Documentation(p.tag, EmptyObject),
   members |-> members]

AstPackage(tag, members) ==
  [kind |-> "Package", name |-> "example-package", supportedName |-> TRUE,
   documentation |-> Documentation(tag, EmptyObject),
   members |-> members]

AstMember(name, p) ==
  [kind |-> "TypeLiteral", name |-> name, supportedName |-> p.sup,
   documentation |-> Documentation(p.tag, EmptyObject),
   declarationKind |-> "TypeLiteral"]

AstProperty(name, p, declarationKind) ==
  [kind |-> "Property", name |-> name, supportedName |-> p.sup,
   documentation |-> Documentation(p.tag, EmptyObject),
   declarationKind |-> declarationKind,
   isOptional |-> Undefined,
   isReadOnly |-> Bool(declarationKind = "GetAccessor"),
   isStatic |-> Bool(FALSE),
   type |-> Str("number")]

AstModuleVariable(name, p, value) ==
  [kind |-> "ModuleVariable", name |-> name, supportedName |-> p.sup,
   documentation |-> Documentation(p.tag, EmptyObject),
   type |-> Str("string"), value |-> value]

NoModifiers ==
  [accessModifier |-> Undefined, isOptional |-> Undefined, isStatic |-> Undefined]

AstMethod(name, p, m, shape) ==
  [kind |-> "Method", name |-> name, supportedName |-> p.sup,
   documentation |-> Documentation(p.tag, shape.docs),
   params |-> shape.params, returnType |-> Str("string"),
   declarationLine |-> "function " \o name \o "()",
   accessModifier |-> m.accessModifier,
   isOptional |-> m.isOptional,
   isStatic |-> m.isStatic]

\* the sequences of at most n elements of S
SeqsUpTo(S, n) == UNION {[1..k -> S] : k \in 0..n}

\* getSortedMemberItems() of one container enumerates one item per name, but
\* for the two accessors of one property
DistinctNames(members) ==
  \A i, j \in 1..Len(members) :
    (i < j /\ members[i].name = members[j].name) =>
      /\ members[i].kind = "Property" /\ members[j].kind = "Property"
      /\ {members[i].declarationKind, members[j].declarationKind}
           = {"GetAccessor", "SetAccessor"}

MemberLists(S) == {m \in SeqsUpTo(S, MaxMembers) : DistinctNames(m)}

ContainerProfiles == {p \in Profiles : p.sup} \cup {[tag |-> "Public", sup |-> FALSE]}

MethodVariants ==
  {[m |-> NoModifiers, shape |-> NoParameters],
   [m |-> [accessModifier |-> Num(2), isOptional |-> Bool(TRUE), isStatic |-> Bool(TRUE)],
    shape |-> DocumentedParameter],
   [m |-> [accessModifier |-> Num(0), isOptional |-> Bool(FALSE), isStatic |-> Bool(TRUE)],
    shape |-> UndocumentedParameter],
   [m |-> [accessModifier |-> Num(1), isOptional |-> Bool(TRUE), isStatic |-> Bool(FALSE)],
    shape |-> UnsupportedParameter]}

\* the members a class or an interface can have: each kind in every profile,
\* and the methods in every variant
ClassMembers ==
  {AstMethod(n, p, NoModifiers, DocumentedParameter) :
     n \in {"a", "__constructor"}, p \in Profiles}
  \cup {AstMethod(n, Visible, x.m, x.shape) :
     n \in {"a", "__constructor"}, x \in MethodVariants}
  \cup {AstProperty("a", p, d) :
     p \in Profiles, d \in {"PropertyDeclaration", "GetAccessor", "SetAccessor"}}
  \cup {AstMember("a", p) : p \in Profiles}

EnumMembers ==
  {AstEnumValue("a", p, <<"a", "=", "1">>) : p \in Profiles}
  \cup {AstEnumValue("a", Visible, t) : t \in {<<>>, <<"a">>}}

\* the items a package or a namespace can export, the containers empty
Exports ==
  {AstFunction("a", p, DocumentedParameter) : p \in Profiles}
  \cup {AstFunction("a", Visible, shape) : shape \in ParameterShapes}
  \cup {AstModuleVariable("a", p, Str("'v'")) : p \in Profiles}
  \cup {AstModuleVariable("a", Visible, Undefined)}
  \cup {AstStructuredType(k, "a", p, <<>>) : k \in {"Class", "Interface"}, p \in Profiles}
  \cup {AstEnum("a", p, <<>>) : p \in Profiles}
  \cup {AstNamespace("a", p, <<>>) : p \in Profiles}

\* the members that are put in lists: a few of each kind, under every name
ListedClassMembers ==
  UNION {{AstMethod(n, Visible, NoModifiers, DocumentedParameter),
          AstMethod(n, [tag |-> "Alpha", sup |-> TRUE], NoModifiers, NoParameters),
          AstProperty(n, Visible, "GetAccessor"),
          AstProperty(n, [tag |-> "Alpha", sup |-> TRUE], "GetAccessor"),
          AstProperty(n, Visible, "SetAccessor"),
          AstProperty(n, [tag |-> "Beta", sup |-> FALSE], "PropertyDeclaration"),
          AstMember(n, Visible)} : n \in Names}
  \cup {AstMethod("__constructor", Visible, NoModifiers, NoParameters)}

ListedExports ==
  UNION {{AstFunction(n, Visible, DocumentedParameter),
          AstModuleVariable(n, [tag |-> "None", sup |-> TRUE], Str("'v'")),
          AstModuleVariable(n, [tag |-> "Public", sup |-> FALSE], Str("'v'")),
          AstStructuredType("Class", n, [tag |-> "Beta", sup |-> TRUE],
            <<AstMethod("a", Visible, NoModifiers, NoParameters)>>),
          AstNamespace(n, [tag |-> "Internal", sup |-> TRUE],
            <<AstFunction("a", Visible, NoParameters)>>)} : n \in Names}

\* one container with one member, both in every profile
SingleMemberPackages ==
  {AstPackage("Public", <<AstStructuredType("Class", "C", p, <<m>>)>>) :
     p \in ContainerProfiles, m \in ClassMembers}
  \cup {AstPackage("Public", <<AstStructuredType("Interface", "C", Visible, <<m>>)>>) :
     m \in ClassMembers}
  \cup {AstPackage("Public", <<AstEnum("E", p, <<m>>)>>) :
     p \in ContainerProfiles, m \in EnumMembers}
  \cup {AstPackage("Public", <<AstNamespace("N", p, <<m>>)>>) :
     p \in ContainerProfiles, m \in Exports}
  \cup {AstPackage("Public", <<m>>) : m \in Exports}

\* lists of members in every order
ListPackages ==
  {AstPackage("Public", m) : m \in MemberLists(ListedExports)}
  \cup {AstPackage("Public", <<AstStructuredType("Class", "C", Visible, m)>>) :
     m \in MemberLists(ListedClassMembers)}

\* a namespace holding a class holding a method, under every release tag
NestedPackages ==
  {AstPackage("Public", <<AstNamespace("N", [tag |-> t1, sup |-> TRUE],
     <<AstStructuredType("Class", "C", [tag |-> t2, sup |-> TRUE],
        <<AstMethod("m", [tag |-> t3, sup |-> TRUE], NoModifiers, DocumentedParameter)>>)>>)>>) :
     t1 \in Tags, t2 \in Tags, t3 \in Tags}

\* the package itself under every release tag
TaggedPackages ==
  {AstPackage(t, m) : t \in Tags,
     m \in {<<>>, <<AstFunction("b", Visible, DocumentedParameter)>>,
            <<AstMember("b", Visible)>>}}

Packages == SingleMemberPackages \cup ListPackages \cup NestedPackages \cup TaggedPackages

\* the packages of the calls after the first one on the same generator
RepeatPackages ==
  {AstPackage(t, m) : t \in {"Public", "Alpha"},
     m \in {<<>>, <<AstFunction("b", Visible, DocumentedParameter)>>}}

(***************************************************************************)
(* The schema validator and the output file.                               *)
(***************************************************************************)
KindStrings ==
  {"class", "interface", "enum", "enum value", "function", "method", "property",
   "namespace", "module variable", "constructor", "package"}

IsKind(x) == x.t = "string" /\ x.v \in KindStrings

\* the key under which a node of a container kind carries its sub-container
SubContainerKeys == {"exports", "members", "values"}

RECURSIVE NodesConform(_)
\* every value of the container is an item node with a kind of the table, and
\* so is every value of the containers below it
NodesConform(container) ==
  \A i \in 1..Len(container.v) :
    LET node == container.v[i].v
    IN /\ node.t = "object"
       /\ IsKind(Get(node, "kind"))
       /\ \A j \in 1..Len(node.v) :
            (node.v[j].k \in SubContainerKeys /\ node.v[j].v.t = "object")
              => NodesConform(node.v[j].v)

\* JsonSchema.validateObjectWithCallback reports no error for the document
Conforms(doc) ==
  /\ Get(doc, "kind") = Str("package")
  /\ Get(doc, "exports").t = "object"
  /\ NodesConform(Get(doc, "exports"))

RECURSIVE toJson(_)
\* the content of the file that JsonFile.save writes for the object: JSON has
\* no undefined, a key whose value is undefined is left out
toJson(obj) ==
  IF obj.t # "object" THEN obj
  ELSE LET kept == SelectSeq(obj.v, LAMBDA e : e.v.t # "undefined")
       IN Obj([i \in 1..Len(kept) |->
                 [k |-> kept[i].k, v |-> toJson(kept[i].v), src |-> kept[i].src]])

ReportFilenames == {<<"dist", "example-package.api.json">>, <<"example-package.api.json">>}

\* path.basename
basename(filename) == filename[Len(filename)]

\* the Error thrown by the callback of the validation
SchemaError(reportFilename) ==
  [file |-> basename(reportFilename),
   text |-> " does not conform to the expected schema -- please report this API Extractor bug:",
   details |-> "errorInfo.details"]

(***************************************************************************)
(* The generator: one instance, writeJsonFile called MaxCalls times.       *)
(***************************************************************************)
VARIABLES
  jsonOutput,      \* this.jsonOutput
  jsonSchema,      \* ApiJsonGenerator._jsonSchema: Undefined until loaded
  schemaLoads,     \* history: number of JsonSchema.fromFile calls
  schemaReturned,  \* history: the objects that the jsonSchema getter returned
  getterAccessed,  \* history: the getter was read outside writeJsonFile
  disk,            \* the content of each output file, Undefined when absent
  pc,              \* position in writeJsonFile: 0 outside a call, else the step
  reportFilename,  \* argument of the current or last call
  package,         \* extractor.package of the current or last call
  passed,          \* history: extractor.package as it was when passed to the call
  outcome,         \* how the last call ended: "none", "returned", "thrown"
  thrown,          \* the Error of the last call that threw
  calls            \* history: number of calls started

\* The lint task: one TslintCmdTask instance, invoke() called MaxInvokes times.
VARIABLES
  taskOptions,       \* this._taskOptions: [customArgs, displayAsError]
  callerCustomArgs,  \* history: customArgs as the caller passed them
  tslintPc,          \* "idle", or "running" between runCmd and the close
  runArgs,           \* the args that the current or last invoke passed to runCmd
  received,          \* history: the data chunks of the current or last invoke
  fileIssues,        \* the fileError and fileWarning calls since that invoke began
  terminal,          \* the lines written to this._terminal since that invoke began
  promise,           \* the promise that the current or last invoke returned
  invokes            \* history: number of invoke() calls

generatorVars == <<jsonOutput, jsonSchema, schemaLoads, schemaReturned, getterAccessed, disk,
                   pc, reportFilename, package, passed, outcome, thrown, calls>>

tslintVars == <<taskOptions, callerCustomArgs, tslintPc, runArgs, received, fileIssues,
                terminal, promise, invokes>>

vars == <<generatorVars, tslintVars>>

NoError == [file |-> "", text |-> "", details |-> ""]

\* new TslintCmdTask(taskOptions, constants, terminalProvider)
TslintCmdTask_new(options) ==
  /\ taskOptions = options
  /\ callerCustomArgs = options.customArgs
  /\ tslintPc = "idle"
  /\ runArgs = Arr(<<>>)
  /\ received = <<>>
  /\ fileIssues = <<>>
  /\ terminal = <<>>
  /\ promise = [state |-> "none", error |-> ""]
  /\ invokes = 0

\* the generator after construction, no schema loaded in the process
ApiJsonGenerator_new ==
  /\ jsonOutput = EmptyObject
  /\ jsonSchema = Undefined
  /\ schemaLoads = 0
  /\ schemaReturned = {}
  /\ getterAccessed = FALSE
  /\ disk = [f \in ReportFilenames |-> Undefined]
  /\ pc = 0
  /\ reportFilename = <<>>
  /\ package = AstPackage("Public", <<>>)
  /\ passed = AstPackage("Public", <<>>)
  /\ outcome = "none"
  /\ thrown = NoError
  /\ calls = 0

Init ==
  /\ ApiJsonGenerator_new
  /\ TslintCmdTask_new([customArgs |-> Undefined, displayAsError |-> Undefined])

\* writeJsonFile validating before it saves
writeJsonFile_steps_validateFirst == <<"visit", "validate", "save">>

\* JsonSchema.fromFile: the n-th schema object created in the process
JsonSchema_fromFile(n) ==
  [t |-> "object", v |-> <<>>, file |-> "../api/api-json.schema.json", id |-> n]

\* the jsonSchema getter loading the schema at every access
jsonSchema_get_uncached(cached, loads) ==
  [cache |-> JsonSchema_fromFile(loads + 1), loads |-> loads + 1]

\* the static jsonSchema getter: [cache, loads] are ApiJsonGenerator._jsonSchema
\* and the number of loads after the access; the getter returns the cache
jsonSchema_get(cached, loads) ==
  IF ~Truthy(cached)
    THEN [cache |-> JsonSchema_fromFile(loads + 1), loads |-> loads + 1]
    ELSE [cache |-> cached, loads |-> loads]

\* the statements of writeJsonFile in the order they run
writeJsonFile_steps == <<"visit", "save", "validate">>

\* writeJsonFile(reportFilename, extractor) is entered
Call ==
  /\ pc = 0
  /\ calls < MaxCalls
  /\ \E f \in ReportFilenames, p \in Packages :
       /\ calls > 0 => (f = reportFilename /\ p \in RepeatPackages)
       /\ reportFilename' = f
       /\ package' = p
       /\ passed' = p
  /\ pc' = 1
  /\ calls' = calls + 1
  /\ outcome' = "none"
  /\ thrown' = NoError
  /\ UNCHANGED <<jsonOutput, jsonSchema, schemaLoads, schemaReturned, getterAccessed, disk>>
  /\ UNCHANGED tslintVars

\* this.visit(extractor.package, this.jsonOutput)
Visit ==
  /\ pc \in 1..Len(writeJsonFile_steps) /\ writeJsonFile_steps[pc] = "visit"
  /\ LET r == visit(package, jsonOutput, <<calls>>)
     IN /\ jsonOutput' = r.ref
        /\ package' = r.item
  /\ pc' = pc + 1
  /\ UNCHANGED <<jsonSchema, schemaLoads, schemaReturned, getterAccessed, disk,
                 reportFilename, passed, outcome, thrown, calls>>
  /\ UNCHANGED tslintVars

\* JsonFile.save(this.jsonOutput, reportFilename)
Save ==
  /\ pc \in 1..Len(writeJsonFile_steps) /\ writeJsonFile_steps[pc] = "save"
  /\ disk' = [disk EXCEPT ![reportFilename] = toJson(jsonOutput)]
  /\ pc' = pc + 1
  /\ UNCHANGED <<jsonOutput, jsonSchema, schemaLoads, schemaReturned, getterAccessed,
                 reportFilename, package, passed, outcome, thrown, calls>>
  /\ UNCHANGED tslintVars

\* ApiJsonGenerator.jsonSchema.validateObjectWithCallback(this.jsonOutput, ...):
\* the getter loads the schema when it is not cached; a violation throws
Validate ==
  /\ pc \in 1..Len(writeJsonFile_steps) /\ writeJsonFile_steps[pc] = "validate"
  /\ LET got == jsonSchema_get(jsonSchema, schemaLoads)
     IN /\ jsonSchema' = got.cache
        /\ schemaLoads' = got.loads
        /\ schemaReturned' = schemaReturned \cup {got.cache}
  /\ UNCHANGED getterAccessed
  /\ IF Conforms(jsonOutput)
       THEN /\ pc' = pc + 1
            /\ UNCHANGED <<outcome, thrown>>
       ELSE /\ pc' = 0
            /\ outcome' = "thrown"
            /\ thrown' = SchemaError(reportFilename)
  /\ UNCHANGED <<jsonOutput, disk, reportFilename, package, passed, calls>>
  /\ UNCHANGED tslintVars

\* the end of the body of writeJsonFile
Return ==
  /\ pc > Len(writeJsonFile_steps)
  /\ pc' = 0
  /\ outcome' = "returned"
  /\ UNCHANGED <<jsonOutput, jsonSchema, schemaLoads, schemaReturned, getterAccessed, disk,
                 reportFilename, package, passed, thrown, calls>>
  /\ UNCHANGED tslintVars

\* ApiJsonGenerator.jsonSchema is read by other code of the process, between
\* the calls of writeJsonFile
GetJsonSchema ==
  /\ pc = 0
  /\ LET got == jsonSchema_get(jsonSchema, schemaLoads)
     IN /\ jsonSchema' = got.cache
        /\ schemaLoads' = got.loads
        /\ schemaReturned' = schemaReturned \cup {got.cache}
  /\ getterAccessed' = TRUE
  /\ UNCHANGED <<jsonOutput, disk, pc, reportFilename, package, passed, outcome, thrown, calls>>
  /\ UNCHANGED tslintVars

Next == Call \/ Visit \/ Save \/ Validate \/ Return \/ GetJsonSchema

Spec == Init /\ [][Next]_vars

(***************************************************************************)
(* TslintCmdTask (rush-stack-compiler): invoke() runs TSLint through the   *)
(* command runner, which hands every chunk of the tool's output to onData  *)
(* and its exit to onClose.  A path is a sequence of segments; the text of *)
(* a data chunk stands for the JSON text it abbreviates.                   *)
(***************************************************************************)
\* this._constants
srcFolderPath == "proj/src"
projectFolderPath == <<"proj">>

\* the customArgs a caller passes: none, an array without a formatter option,
\* or an array with one of the four formatter options
CustomArgsInputs ==
  {Undefined, Arr(<<>>), Arr(<<"--fix">>), Arr(<<"--format", "stylish">>),
   Arr(<<"-t", "stylish">>), Arr(<<"--formatters-dir", "dir">>), Arr(<<"-s", "dir">>)}

TaskOptionsInputs ==
  {[customArgs |-> a, displayAsError |-> d] :
     a \in CustomArgsInputs, d \in {Undefined, Bool(FALSE), Bool(TRUE)}}

\* TSLint.IRuleFailureJson
RuleFailure(name, line, character, ruleName, failure) ==
  [name |-> name, startPosition |-> [line |-> line, character |-> character],
   ruleName |-> ruleName, failure |-> failure]

F1 == RuleFailure(<<"proj", "src", "a.ts">>, 0, 4, "semicolon", "Missing semicolon")
F2 == RuleFailure(<<"lib", "b.ts">>, 2, 0, "no-var-keyword", "Forbidden 'var' keyword")

\* the chunks TSLint writes: JSON arrays of failures (one padded with white
\* space), a JSON text that is no array, and a text that is no JSON
DataChunks == {"[]", "[F1]", " [F1,F2] ", "1", "Failed to load tslint.json"}

\* String.prototype.trim on the chunk texts
trim(str) == IF str = " [F1,F2] " THEN "[F1,F2]" ELSE str

\* JSON.parse on the chunk texts: ok = FALSE when it throws a SyntaxError
JSON_parse(str) ==
  CASE str = "[]" -> [ok |-> TRUE, value |-> Arr(<<>>)]
    [] str = "[F1]" -> [ok |-> TRUE, value |-> Arr(<<F1>>)]
    [] str \in {"[F1,F2]", " [F1,F2] "} -> [ok |-> TRUE, value |-> Arr(<<F1, F2>>)]
    [] str = "1" -> [ok |-> TRUE, value |-> Num(1)]
    [] OTHER -> [ok |-> FALSE, value |-> Undefined]

\* Array.prototype.indexOf
indexOf(array, x) ==
  IF \E i \in 1..Len(array) : array[i] = x
    THEN (CHOOSE i \in 1..Len(array) :
            array[i] = x /\ \A j \in 1..(i - 1) : array[j] # x) - 1
    ELSE -1

\* path.relative(from, to) on absolute paths
relative(from, to) ==
  LET common == CHOOSE n \in 0..Len(from) :
                  /\ n <= Len(to)
                  /\ SubSeq(from, 1, n) = SubSeq(to, 1, n)
                  /\ \A k \in (n + 1)..Len(from) :
                       k > Len(to) \/ SubSeq(from, 1, k) # SubSeq(to, 1, k)
  IN [i \in 1..(Len(from) - common) |-> ".."] \o SubSeq(to, common + 1, Len(to))

\* the getter this._customFormatterSpecified
customFormatterSpecified(options) ==
  LET customArgs == OrElse(options.customArgs, Arr(<<>>))
  IN \/ indexOf(customArgs.v, "--formatters-dir") # -1
     \/ indexOf(customArgs.v, "-s") # -1
     \/ indexOf(customArgs.v, "--format") # -1
     \/ indexOf(customArgs.v, "-t") # -1

\* args.push(...items)
push(array, items) == Arr(array.v \o items)

\* invoke(), up to the call of runCmd: args is the customArgs array itself
\* when the caller passed one, so the pushes change that array
Invoke ==
  /\ tslintPc = "idle"
  /\ invokes < MaxInvokes
  /\ LET args == OrElse(taskOptions.customArgs, Arr(<<>>))
         withFormat == IF ~customFormatterSpecified(taskOptions)
                         THEN push(args, <<"--format", "json">>)
                         ELSE args
         withProject == push(withFormat, <<"--project", srcFolderPath>>)
     IN /\ terminal' = IF customFormatterSpecified(taskOptions)
                         THEN <<[level |-> "verbose",
                                 text |-> "A custom formatter has been specified in customArgs, so the default TSLint error logging has been disabled."]>>
                         ELSE <<>>
        /\ taskOptions' = IF Truthy(taskOptions.customArgs)
                            THEN [taskOptions EXCEPT !.customArgs = withProject]
                            ELSE taskOptions
        /\ runArgs' = withProject
  /\ tslintPc' = "running"
  /\ received' = <<>>
  /\ fileIssues' = <<>>
  /\ promise' = [state |-> "pending", error |-> ""]
  /\ invokes' = invokes + 1
  /\ UNCHANGED <<callerCustomArgs, generatorVars>>

\* the fileError or fileWarning call that onData makes for a failure
FileIssue(fn, error) ==
  [fn |-> fn,
   filePath |-> relative(projectFolderPath, error.name),
   line |-> error.startPosition.line + 1,
   column |-> error.startPosition.character + 1,
   errorCode |-> error.ruleName,
   message |-> error.failure]

\* the onData callback, called by the command runner with a chunk of output
OnData ==
  /\ tslintPc = "running"
  /\ Len(received) < MaxChunks
  /\ \E data \in DataChunks :
       /\ received' = Append(received, data)
       /\ IF ~customFormatterSpecified(taskOptions)
            THEN LET dataStr == trim(data)
                     tslintErrorLogFn == IF Truthy(taskOptions.displayAsError)
                                           THEN "fileError" ELSE "fileWarning"
                     errors == JSON_parse(dataStr)
                 IN IF errors.ok /\ errors.value.t = "array"
                      THEN /\ fileIssues' =
                                fileIssues \o [i \in 1..Len(errors.value.v) |->
                                                 FileIssue(tslintErrorLogFn, errors.value.v[i])]
                           /\ UNCHANGED terminal
                      ELSE /\ terminal' = Append(terminal, [level |-> "error", text |-> dataStr])
                           /\ UNCHANGED fileIssues
            ELSE UNCHANGED <<fileIssues, terminal>>
  /\ UNCHANGED <<taskOptions, callerCustomArgs, tslintPc, runArgs, promise, invokes,
                 generatorVars>>

\* the onClose callback, called by the command runner when TSLint exits
OnClose ==
  /\ tslintPc = "running"
  /\ \E code \in {0, 1, 2}, hasErrors \in BOOLEAN :
       promise' = IF Truthy(taskOptions.displayAsError) /\ (code # 0 \/ hasErrors)
                    THEN [state |-> "rejected",
                          error |-> "exited with code " \o ToString(code)]
                    ELSE [state |-> "resolved", error |-> ""]
  /\ tslintPc' = "idle"
  /\ UNCHANGED <<taskOptions, callerCustomArgs, runArgs, received, fileIssues, terminal,
                 invokes, generatorVars>>

TslintInit ==
  /\ ApiJsonGenerator_new
  /\ \E options \in TaskOptionsInputs : TslintCmdTask_new(options)

TslintNext == Invoke \/ OnData \/ OnClose

TslintSpec == TslintInit /\ [][TslintNext]_vars

(***************************************************************************)
(* Properties.                                                             *)
(***************************************************************************)
IsContainer(astItem) == "members" \in DOMAIN astItem

RECURSIVE ItemsOf(_, _, _)
\* every item of the tree under astItem as [path, item, hidden], hidden when
\* the item or one of the items above it is tagged @alpha or @internal
ItemsOf(astItem, path, hiddenAbove) ==
  LET hidden == hiddenAbove \/ astItem.documentation.releaseTag \in {"Alpha", "Internal"}
  IN {[path |-> path, item |-> astItem, hidden |-> hidden]}
     \cup IF IsContainer(astItem)
            THEN UNION {ItemsOf(astItem.members[i], Append(path, i), hidden) :
                          i \in 1..Len(astItem.members)}
            ELSE {}

\* the items of the package passed to the current or last call
PassedItems == ItemsOf(passed, <<calls>>, FALSE)

RECURSIVE SrcsOf(_)
\* the history annotations of all entries of the object, at every depth
SrcsOf(obj) ==
  IF obj.t # "object" THEN {}
  ELSE UNION {{obj.v[i].src} \cup SrcsOf(obj.v[i].v) : i \in 1..Len(obj.v)}

\* the visit of the current call has run
Visited == calls > 0 /\ pc # 1
\* the save of the current call has run
Saved == calls > 0 /\ (pc = 0 \/ pc > 2)

\* C1: no entry of the output document, at any depth, was stored for an item
\* tagged @alpha or @internal or for an item below such an item, whatever the
\* descendant's own release tag is; the same holds of the saved file.
C1_SuppressedSubtreeAbsent ==
  /\ Visited =>
       \A x \in PassedItems : x.hidden => x.path \notin SrcsOf(jsonOutput)
  /\ Saved =>
       \A x \in PassedItems : x.hidden => x.path \notin SrcsOf(disk[reportFilename])

\* a call returned for a package in which a @public method sits in an @alpha
\* or @internal class, next to nothing else
C1_Witness ==
  /\ outcome = "returned"
  /\ \E x \in PassedItems :
       /\ x.hidden
       /\ x.item.kind = "Method"
       /\ x.item.documentation.releaseTag = "Public"
       /\ x.item.supportedName
  /\ Get(jsonOutput, "exports") = EmptyObject

RECURSIVE Strip(_)
\* the object without its history annotations
Strip(obj) ==
  IF obj.t # "object" THEN obj
  ELSE Obj([i \in 1..Len(obj.v) |->
              [k |-> obj.v[i].k, v |-> Strip(obj.v[i].v), src |-> <<>>]])

\* the item of the current call's package that stored the entry
ItemAt(path) == (CHOOSE x \in PassedItems : x.path = path).item

RECURSIVE ContainersIn(_)
\* the sub-containers of the nodes of a container, at every depth, each with
\* the path of the item that owns it
ContainersIn(container) ==
  UNION {IF container.v[i].v.t # "object" THEN {}
         ELSE UNION {{[owner |-> container.v[i].v.v[j].src, c |-> container.v[i].v.v[j].v]}
                     \cup ContainersIn(container.v[i].v.v[j].v) :
                       j \in {n \in 1..Len(container.v[i].v.v) :
                                /\ container.v[i].v.v[n].k \in SubContainerKeys
                                /\ container.v[i].v.v[n].v.t = "object"}}
           : i \in 1..Len(container.v)}

\* the exports, members and values containers that the current call built
Containers(doc) ==
  LET all == IF HasKey(doc, "exports")
               THEN {[owner |-> doc.v[KeyIndex(doc, "exports")].src, c |-> Get(doc, "exports")]}
                    \cup ContainersIn(Get(doc, "exports"))
               ELSE {}
  IN {x \in all : x.owner[1] = calls}

\* the container that the member loop of a handler builds from a member list
ContainerOf(members, path) ==
  visitMembers(members, 1, [ref |-> EmptyObject, items |-> <<>>], path).ref

\* C2: an item with supportedName = false stores no entry, and the container
\* of its parent is the one built from the member list without the item.
C2_UnsupportedNameAbsent ==
  Visited =>
    /\ \A x \in PassedItems :
         (~x.item.supportedName /\ x.item.kind # "Package")
           => x.path \notin SrcsOf(jsonOutput)
    /\ \A ct \in Containers(jsonOutput) :
         Strip(ct.c) =
           Strip(ContainerOf(SelectSeq(ItemAt(ct.owner).members,
                                       LAMBDA m : m.supportedName), ct.owner))

RECURSIVE EntriesOf(_)
\* the entries of a container of item nodes and of the containers below it
EntriesOf(container) ==
  IF container.t # "object" THEN {}
  ELSE UNION {{container.v[i]}
              \cup (IF container.v[i].v.t # "object" THEN {}
                    ELSE UNION {EntriesOf(container.v[i].v.v[j].v) :
                                  j \in {n \in 1..Len(container.v[i].v.v) :
                                           container.v[i].v.v[n].k \in SubContainerKeys}})
                : i \in 1..Len(container.v)}

\* the entries of every exports, members and values container of the document
ItemEntries(doc) == EntriesOf(Get(doc, "exports"))

HasDocKeys(node) ==
  /\ node.t = "object"
  /\ \A k \in {"kind", "summary", "remarks", "deprecatedMessage"} : HasKey(node, k)

HasBooleanIsBeta(node) == HasKey(node, "isBeta") /\ Get(node, "isBeta").t = "boolean"

HandledKinds ==
  {"Class", "Interface", "Enum", "EnumValue", "Function", "Package", "Property",
   "Method", "Namespace", "ModuleVariable"}

\* C3 as stated: every item node is an object with kind, isBeta (a boolean),
\* summary, remarks and deprecatedMessage.
C3_EveryNodeHasCommonKeys ==
  Visited => \A e \in ItemEntries(jsonOutput) : HasDocKeys(e.v) /\ HasBooleanIsBeta(e.v)

\* C3 amended: the value stored for an item of the generic member handler is
\* the string 'astMember-<declaration kind>'; every other value is an object
\* with kind, summary, remarks and deprecatedMessage, which has a boolean isBeta
\* unless it is the node of a method named '__constructor', which has none.
C3_NodeKeysByHandler ==
  Visited =>
    \A e \in ItemEntries(jsonOutput) :
      /\ e.v.t \in {"string", "object"}
      /\ e.v.t = "object" =>
           /\ HasDocKeys(e.v)
           /\ IF Get(e.v, "kind") = Str("constructor")
                THEN ~HasKey(e.v, "isBeta") ELSE HasBooleanIsBeta(e.v)
      /\ e.src[1] = calls =>
           LET item == ItemAt(e.src)
           IN /\ IF item.kind \in HandledKinds
                   THEN e.v.t = "object"
                   ELSE e.v = Str("astMember-" \o item.declarationKind)
              /\ (item.kind = "Method" /\ item.name = "__constructor")
                   <=> (e.v.t = "object" /\ Get(e.v, "kind") = Str("constructor"))

\* a class was serialized whose members are a '__constructor' method and an
\* item of the generic member handler
C3_Witness ==
  /\ Visited
  /\ \E e1, e2 \in ItemEntries(jsonOutput) :
       /\ e1.src[1] = calls /\ e2.src[1] = calls
       /\ e1.v.t = "object" /\ Get(e1.v, "kind") = Str("constructor")
       /\ e2.v.t = "string"
  /\ \E e \in ItemEntries(jsonOutput) : e.v.t = "object" /\ HasBooleanIsBeta(e.v)

\* the member index that ends the path of the item that stored the entry
MemberIndex(entry) == entry.src[Len(entry.src)]

\* C4: in every exports, members and values container the entries are those of
\* members of the owning item, each under the member's name, and they stand in
\* the order in which getSortedMemberItems() enumerates these members.
C4_MemberOrderPreserved ==
  Visited =>
    \A ct \in Containers(jsonOutput) :
      LET members == ItemAt(ct.owner).members
      IN \A i \in 1..Len(ct.c.v) :
           /\ ct.c.v[i].src = Append(ct.owner, MemberIndex(ct.c.v[i]))
           /\ MemberIndex(ct.c.v[i]) \in 1..Len(members)
           /\ ct.c.v[i].k = members[MemberIndex(ct.c.v[i])].name
           /\ \A j \in 1..Len(ct.c.v) :
                i < j => MemberIndex(ct.c.v[i]) < MemberIndex(ct.c.v[j])

\* a container was built with the key 'b' before the key 'a', from a member
\* list that enumerates 'b' before 'a'
C4_Witness ==
  /\ Visited
  /\ \E ct \in Containers(jsonOutput) :
       /\ Len(ct.c.v) >= 2
       /\ ct.c.v[1].k = "b"
       /\ ct.c.v[2].k = "a"

\* the validation of the current call has run
Validated == calls > 0 /\ (outcome # "none" \/ pc > Len(writeJsonFile_steps))

\* C5: when the validation has run the file is written and holds the
\* document; a call that throws leaves the file with the non-conformant
\* document and an Error naming the file; a call that returns has a
\* conformant document.
C5_SavedBeforeValidated ==
  /\ Validated => disk[reportFilename] = toJson(jsonOutput)
  /\ outcome = "thrown" =>
       /\ ~Conforms(jsonOutput)
       /\ ~Conforms(disk[reportFilename])
       /\ thrown.file = reportFilename[Len(reportFilename)]
  /\ outcome = "returned" => Conforms(jsonOutput)

\* a call threw and the file in the directory 'dist' holds a document in
\* which the value of a member is not an object
C5_Witness ==
  /\ outcome = "thrown"
  /\ Len(reportFilename) = 2
  /\ disk[reportFilename].t = "object"
  /\ \E e \in ItemEntries(disk[reportFilename]) : e.v.t = "string"

\* C6: the item tree is after the traversal what it was before it.
C6_ItemTreeUnchanged ==
  Visited => package = passed

\* C7: the node of an emitted method named '__constructor' has the kind
\* 'constructor' and exactly the keys kind, signature, parameters,
\* deprecatedMessage, summary and remarks.
C7_ConstructorNode ==
  Visited =>
    \A e \in ItemEntries(jsonOutput) :
      (/\ e.src[1] = calls
       /\ ItemAt(e.src).kind = "Method"
       /\ ItemAt(e.src).name = "__constructor")
        => /\ e.v.t = "object"
           /\ Get(e.v, "kind") = Str("constructor")
           /\ Keys(e.v) = <<"kind", "signature", "parameters",
                            "deprecatedMessage", "summary", "remarks">>

\* a static '__constructor' method with an access modifier was serialized
C7_Witness ==
  /\ Visited
  /\ \E e \in ItemEntries(jsonOutput) :
       /\ e.src[1] = calls
       /\ e.k = "__constructor"
       /\ ItemAt(e.src).kind = "Method"
       /\ ItemAt(e.src).accessModifier.t = "number"
       /\ Truthy(ItemAt(e.src).isStatic)

IsAccessor(astItem, declarationKind) ==
  astItem.kind = "Property" /\ astItem.declarationKind = declarationKind

\* the get-accessor at index g and the set-accessor at index t of the member
\* list are the accessors of one name
IsAccessorPair(members, g, t) ==
  /\ IsAccessor(members[g], "GetAccessor")
  /\ IsAccessor(members[t], "SetAccessor")
  /\ members[g].name = members[t].name

\* the entries of the container under the key
EntriesUnder(container, k) == {i \in 1..Len(container.v) : container.v[i].k = k}

\* C8 as stated: a set-accessor property stores no entry; where a member list
\* has the set-accessor and the get-accessor of one name, in either order, the
\* container has exactly one entry of that name, stored for the get-accessor.
C8_AccessorPairOneEntry ==
  Visited =>
    /\ \A x \in PassedItems :
         IsAccessor(x.item, "SetAccessor") => x.path \notin SrcsOf(jsonOutput)
    /\ \A ct \in Containers(jsonOutput) :
         LET members == ItemAt(ct.owner).members
         IN \A g, t \in 1..Len(members) :
              IsAccessorPair(members, g, t)
                => /\ Cardinality(EntriesUnder(ct.c, members[g].name)) = 1
                   /\ \E i \in EntriesUnder(ct.c, members[g].name) :
                        ct.c.v[i].src = Append(ct.owner, g)

\* C8 amended: a set-accessor property stores no entry; where a member list
\* has the set-accessor and the get-accessor of one name, in either order, the
\* container has exactly one entry of that name, stored for the get-accessor,
\* when the get-accessor is itself emitted (its release tag is not @alpha or
\* @internal and its name is supported), and no entry stored for either
\* accessor otherwise.
C8_SetAccessorNeverEmitted ==
  Visited =>
    /\ \A x \in PassedItems :
         IsAccessor(x.item, "SetAccessor") => x.path \notin SrcsOf(jsonOutput)
    /\ \A ct \in Containers(jsonOutput) :
         LET members == ItemAt(ct.owner).members
         IN \A g, t \in 1..Len(members) :
              IsAccessorPair(members, g, t)
                => IF /\ members[g].supportedName
                      /\ members[g].documentation.releaseTag \notin {"Alpha", "Internal"}
                     THEN /\ Cardinality(EntriesUnder(ct.c, members[g].name)) = 1
                          /\ \E i \in EntriesUnder(ct.c, members[g].name) :
                               ct.c.v[i].src = Append(ct.owner, g)
                     ELSE \A i \in 1..Len(ct.c.v) :
                            ct.c.v[i].src \notin {Append(ct.owner, g), Append(ct.owner, t)}

\* a class was serialized whose members are the set-accessor and then the
\* get-accessor of one property
C8_Witness ==
  /\ Visited
  /\ \E ct \in Containers(jsonOutput) :
       LET members == ItemAt(ct.owner).members
       IN /\ Len(members) >= 2
          /\ IsAccessor(members[1], "SetAccessor")
          /\ IsAccessor(members[2], "GetAccessor")
          /\ members[1].name = members[2].name
          /\ Len(ct.c.v) = 1

\* C9: the root object has the keys kind, summary, remarks and exports, exports
\* being an object, and no isBeta key.
C9_RootKeys ==
  Visited =>
    /\ \A k \in {"kind", "summary", "remarks", "exports"} : HasKey(jsonOutput, k)
    /\ Get(jsonOutput, "exports").t = "object"
    /\ ~HasKey(jsonOutput, "isBeta")

\* the document that the visit of the passed package builds in a fresh container
FreshDocument == visit(passed, EmptyObject, <<calls>>).ref

\* C10: the document that a call builds, saves and validates is the one built
\* from the package of that call in a fresh container.
C10_FreshRootContainer ==
  /\ Visited => jsonOutput = FreshDocument
  /\ Saved => disk[reportFilename] = toJson(FreshDocument)

\* C11: the schema is loaded from file at most once, it is loaded exactly when
\* the getter has been read (by writeJsonFile or by other code), and every
\* access has returned the one cached schema object.
C11_SchemaLoadedOnce ==
  /\ schemaLoads <= 1
  /\ schemaLoads = 0 <=> schemaReturned = {}
  /\ schemaLoads = 0 <=> ~Truthy(jsonSchema)
  /\ schemaReturned # {} => schemaReturned = {jsonSchema}

\* the getter was read by other code and by the validation of two calls, and
\* the schema was loaded once
C11_Witness ==
  /\ getterAccessed
  /\ calls = 2
  /\ outcome # "none"
  /\ schemaLoads = 1

\* the node has the key and an object under it
HasObjectUnder(node, k) == HasKey(node, k) /\ Get(node, k).t = "object"

\* C12: every emitted class or interface node has a 'members' object, every
\* emitted enum node a 'values' object, every emitted namespace node and the
\* emitted package root an 'exports' object, whatever the member list of the
\* item is.
C12_SubContainerPresent ==
  Visited =>
    /\ HasKey(jsonOutput, "kind") => HasObjectUnder(jsonOutput, "exports")
    /\ \A e \in ItemEntries(jsonOutput) :
         e.v.t = "object" =>
           /\ Get(e.v, "kind") \in {Str("class"), Str("interface")}
                => HasObjectUnder(e.v, "members")
           /\ Get(e.v, "kind") = Str("enum") => HasObjectUnder(e.v, "values")
           /\ Get(e.v, "kind") = Str("namespace") => HasObjectUnder(e.v, "exports")

\* the array holds one of the four formatter options
HasFormatterOption(customArgs) ==
  customArgs.t = "array" /\
    \E i \in 1..Len(customArgs.v) :
      customArgs.v[i] \in {"--formatters-dir", "-s", "--format", "-t"}

\* the args hold '--format' followed by 'json'
PassesFormatJson(args) ==
  \E i \in 1..(Len(args.v) - 1) : args.v[i] = "--format" /\ args.v[i + 1] = "json"

RECURSIVE FailuresOf(_, _)
\* the failures of the chunks that are JSON arrays, in the order received,
\* each as the call of the function fn that reports it
FailuresOf(chunks, fn) ==
  IF chunks = <<>> THEN <<>>
  ELSE LET errors == JSON_parse(trim(Head(chunks)))
       IN (IF errors.ok /\ errors.value.t = "array"
             THEN [i \in 1..Len(errors.value.v) |-> FileIssue(fn, errors.value.v[i])]
             ELSE <<>>)
          \o FailuresOf(Tail(chunks), fn)

\* C13: in every invoke() of a sequence, '--format json' is passed to TSLint
\* if and only if the caller's customArgs hold no formatter option, and then
\* every failure of every chunk received is reported, through fileError when
\* displayAsError is true and through fileWarning otherwise, while with a
\* formatter option nothing is reported; the caller's customArgs array is
\* what the caller passed.
C13_JsonFormatterIffNoCustomFormatter ==
  /\ taskOptions.customArgs = callerCustomArgs
  /\ invokes > 0 =>
       /\ PassesFormatJson(runArgs) <=> ~HasFormatterOption(callerCustomArgs)
       /\ fileIssues =
            IF HasFormatterOption(callerCustomArgs) THEN <<>>
            ELSE FailuresOf(received, IF Truthy(taskOptions.displayAsError)
                                        THEN "fileError" ELSE "fileWarning")

====
